---- MODULE Spec2Model ----
(***************************************************************************)
(* The /transcribe streaming session of                                    *)
(* backend/app/api/websocket_transcribe.py: the receive loop with its two  *)
(* byte buffers, the inference tasks it spawns, the send queue and its     *)
(* single sender task, and the finally block that drains and closes.       *)
(*                                                                         *)
(* Buffers are byte strings that are always a suffix of the inbound        *)
(* stream, so each is modelled by its length in bytes together with the    *)
(* total number of bytes received; a window is the half-open byte range    *)
(* [first, last) of the stream that it holds.                              *)
(***************************************************************************)
EXTENDS Integers, Sequences, FiniteSets

VARIABLES
    hpc,            \* position of the websocket_transcribe coroutine
    exit,           \* what ended the receive loop
    audio_buffer,   \* len(audio_buffer), bytes
    sliding_buffer, \* len(sliding_buffer), bytes
    received,       \* bytes received so far (end of the stream)
    nfrag,          \* fragments received so far
    tasks,          \* the process_chunk tasks, in creation order
    active_tasks,   \* the active_tasks list (task ids)
    gathered,       \* the tasks handed to asyncio.gather in the finally block
    send_queue,     \* the asyncio.Queue
    spc,            \* position of the sender coroutine
    enq,            \* history: every message put on send_queue, in put order
    wire,           \* history: every message the sender passed to safe_send, with its outcome
    clientUp,       \* whether the peer is still there
    appState,       \* ws.application_state
    closes,         \* number of ws.close() calls
    input_lang,     \* the lang query parameter of the connection
    isoLang,        \* the language hint given to the engine
    engine          \* history: the model.transcribe calls that AdapterSpec records

\* The language cache of backend/app/api/routes_actions.py and the coroutines
\* that call get_supported_langs
VARIABLES
    LANG_MAP,       \* the module global: None, or the list a fetch returned
    locked,         \* _LANGS_LOCK._locked
    waiters,        \* _LANGS_LOCK._waiters, oldest first
    gpc,            \* position of each caller of get_supported_langs
    fetched         \* history: the callers whose fetch_languages call has returned a list

\* The state of the /transcribe session
session == <<hpc, exit, audio_buffer, sliding_buffer, received, nfrag, tasks,
             active_tasks, gathered, send_queue, spc, enq, wire, clientUp,
             appState, closes, input_lang, isoLang, engine>>

\* The state of the language cache
cache == <<LANG_MAP, locked, waiters, gpc, fetched>>

\* The /translate session of backend/app/api/websocket_translate.py
VARIABLES
    tpc,            \* position of the websocket_translate coroutine
    input_pair,     \* input_lang and target_lang
    inbox,          \* history: the text frames received, in order
    replies,        \* history: the payloads passed to safe_send, in order
    trPeerUp        \* whether the peer of the /translate socket is still there

\* The state of the /translate session
translate == <<tpc, input_pair, inbox, replies, trPeerUp>>

\* Calls of the LanguageConverter of backend/app/core/language_codes.py
VARIABLES
    todo,           \* the LibreTranslate codes still to be converted
    cur,            \* the conversion in progress
    converted       \* history: the conversions made

\* The state of the conversions
codes == <<todo, cur, converted>>

\* The state of the other endpoints, which a /transcribe session leaves alone
outside == <<cache, translate, codes>>

vars == <<session, outside>>

----------------------------------------------------------------------------
(* Program constants *)

SAMPLE_RATE == 16000
CHUNK_DURATION_SEC == 2
\* OVERLAP_DURATION_SEC = 0.1, kept as its denominator: int(SAMPLE_RATE * 0.1)
OVERLAP_DURATION_DIV == 10
RETRANSCRIBE_SEC == 10
\* np.int16: two bytes per sample
BYTES_PER_SAMPLE == 2

CHUNK_SIZE == SAMPLE_RATE * CHUNK_DURATION_SEC
OVERLAP_SIZE == SAMPLE_RATE \div OVERLAP_DURATION_DIV
RETRANSCRIBE_SIZE == SAMPLE_RATE * RETRANSCRIBE_SEC

(* Bounds of the model *)

MaxFragments == 2
MaxTasks == 2

\* The byte lengths of the inbound fragments that are tried: one stray byte,
\* 0.1 s of audio, exactly one short window, one short window plus the
\* overlap, two short windows, and RETRANSCRIBE_SIZE bytes.
FragmentSizes ==
    { 1,
      BYTES_PER_SAMPLE * OVERLAP_SIZE,
      BYTES_PER_SAMPLE * CHUNK_SIZE,
      BYTES_PER_SAMPLE * (CHUNK_SIZE + OVERLAP_SIZE),
      BYTES_PER_SAMPLE * 2 * CHUNK_SIZE,
      RETRANSCRIBE_SIZE }

----------------------------------------------------------------------------
(* Messages *)

PartialMsg(t, flag) ==
    [event |-> "partial_text", task |-> t, is_retranscribe |-> flag]

DoneMsg == [event |-> "done", task |-> 0, is_retranscribe |-> FALSE]

None == [event |-> "None", task |-> 0, is_retranscribe |-> FALSE]

Range(s) == { s[i] : i \in 1..Len(s) }

\* A queue that hands out the newest item first.
QueuePutFront(q, m) == <<m>> \o q

\* asyncio.Queue.put_nowait on the unbounded FIFO queue
QueuePut(q, m) == Append(q, m)

\* asyncio.Queue.get: the oldest item
QueueGet(q) == Head(q)

----------------------------------------------------------------------------
(* The buffer arithmetic of the receive loop *)

\* len(np.frombuffer(buf, dtype=np.int16)) for a buffer of n bytes
SampleCount(n) == n \div BYTES_PER_SAMPLE

\* np.frombuffer raises ValueError unless the size is a multiple of the element size
Reinterprets(n) == n % BYTES_PER_SAMPLE = 0

\* len(buf[-k:]) for a buffer of n bytes, k > 0
KeepTail(n, k) == IF n > k THEN k ELSE n

\* if len(audio_np) >= CHUNK_SIZE
ShortReady(n) == SampleCount(n) >= CHUNK_SIZE

\* The short buffer left as it is after an emission.
TruncateShortSkipped(n) == n

\* audio_buffer = audio_buffer[-OVERLAP_SIZE:]
TruncateShort(n) == KeepTail(n, OVERLAP_SIZE)

\* if len(sliding_buffer) >= RETRANSCRIBE_SIZE
LongReady(n) == n >= RETRANSCRIBE_SIZE

\* sliding_buffer = sliding_buffer[-OVERLAP_SIZE:]
TruncateLong(n) == KeepTail(n, OVERLAP_SIZE)

\* A short window that is the whole stream received so far.
ShortWindowFromStart(end) == [first |-> 0, last |-> end]

\* chunk = audio_np[-CHUNK_SIZE:], as the byte range of the stream it covers
ShortWindow(end) ==
    [first |-> end - BYTES_PER_SAMPLE * CHUNK_SIZE, last |-> end]

\* large_chunk_np = np.frombuffer(sliding_buffer, ...), as a byte range
LongWindow(end, n) == [first |-> end - n, last |-> end]

\* asyncio.create_task(process_chunk(chunk, isoLang, send_queue, is_retranscribe))
NewTask(w, flag) ==
    [is_retranscribe |-> flag, first |-> w.first, last |-> w.last,
     st |-> "call1"]

----------------------------------------------------------------------------
(* Language codes: backend/app/core/language_codes.py *)

\* The lang query parameters that are tried: the automatic mode, a plain
\* tag, two tags that the exception table or langcodes reduce to their
\* language, a well-formed tag of a language the engine does not know, and
\* a string that is no language tag.
InputLangs == {"auto", "en", "zh-Hans", "pt-br", "tlh", "!!"}

\* Strings that langcodes cannot parse as a language tag
Malformed == {"!!"}

\* What a langcodes call raises on such a string
LanguageTagError == "LanguageTagError"

\* language=None
NoLanguage == "None"

\* The items of the LIBRETRANSLATE_EXCEPTIONS dict literal, in the order in
\* which they are written: a dict keeps that order
ExceptionItems ==
    << <<"zh-Hant", "zh">>, <<"zh-Hans", "zh">>, <<"pt-br", "pt">>, <<"nb", "no">> >>

LIBRETRANSLATE_EXCEPTIONS ==
    [c \in { ExceptionItems[i][1] : i \in 1..Len(ExceptionItems) } |->
        ExceptionItems[CHOOSE i \in 1..Len(ExceptionItems) : ExceptionItems[i][1] = c][2]]

\* langcodes.standardize_tag on a well-formed tag: the region in upper case
standardize_tag(code) == IF code = "pt-br" THEN "pt-BR" ELSE code

\* langcodes.get(code).language on a well-formed tag: the language subtag
language(code) ==
    CASE code \in {"pt-br", "pt-BR"} -> "pt"
      [] code \in {"zh-Hans", "zh-Hant"} -> "zh"
      [] OTHER -> code

\* normalize_bcp47: the tag is returned as it is when standardize_tag raises
normalize_bcp47(code) ==
    IF code \in Malformed THEN code ELSE standardize_tag(code)

\* to_whisper: the exception table, else the language subtag of the tag;
\* langcodes.get is not guarded and raises on a string it cannot parse
to_whisper(code) ==
    IF code \in DOMAIN LIBRETRANSLATE_EXCEPTIONS
      THEN LIBRETRANSLATE_EXCEPTIONS[code]
      ELSE IF code \in Malformed
             THEN LanguageTagError
             ELSE IF language(code) # "" THEN language(code) ELSE code

\* A reverse table in which the first item written for a value stays.
ReverseItemFirst(v) ==
    CHOOSE i \in 1..Len(ExceptionItems) :
        /\ ExceptionItems[i][2] = v
        /\ \A j \in 1..Len(ExceptionItems) : ExceptionItems[j][2] = v => i <= j

\* {v: k for k, v in LIBRETRANSLATE_EXCEPTIONS.items()}: the item that sets
\* the key v of the reverse table last, which is the one that stays
ReverseItem(v) ==
    CHOOSE i \in 1..Len(ExceptionItems) :
        /\ ExceptionItems[i][2] = v
        /\ \A j \in 1..Len(ExceptionItems) : ExceptionItems[j][2] = v => j <= i

reverse_exceptions ==
    [v \in { ExceptionItems[i][2] : i \in 1..Len(ExceptionItems) } |->
        ExceptionItems[ReverseItem(v)][1]]

\* to_libre: the reverse table, else the normalized tag
to_libre(code) ==
    IF code \in DOMAIN reverse_exceptions
      THEN reverse_exceptions[code]
      ELSE normalize_bcp47(code)

\* LanguageConverter.convert(code, "libretranslate", "whisper")
convert_libretranslate_whisper(code) == to_whisper(normalize_bcp47(code))

\* The language codes the engine accepts, among those that can come up here
WhisperLanguages == {"en", "zh", "pt", "no"}

\* The engine takes the language argument: no hint, or one of its codes
EngineAccepts(lang) == lang \in WhisperLanguages \cup {NoLanguage}

\* The codes that are converted: the keys of the exception table, their
\* Whisper codes, a plain tag and a tag Whisper does not know
LibreCodes == {"zh-Hant", "zh-Hans", "pt-br", "nb", "zh", "pt", "no", "en", "tlh"}

MaxCodes == 2

\* The lists of at most MaxCodes codes
CodeLists == UNION { [1..n -> LibreCodes] : n \in 0..MaxCodes }

\* No conversion in progress
NoConversion == [code |-> "", whisper |-> ""]

CodesInit(s) ==
    /\ todo = s
    /\ cur = NoConversion
    /\ converted = {}

\* to_whisper is applied to the next code
ToWhisper ==
    /\ cur = NoConversion
    /\ todo # <<>>
    /\ cur' = [code |-> Head(todo), whisper |-> to_whisper(Head(todo))]
    /\ todo' = Tail(todo)
    /\ UNCHANGED <<converted, session, cache, translate>>

\* to_libre is applied to the result
ToLibre ==
    /\ cur # NoConversion
    /\ converted' = converted \cup
           {[code |-> cur.code, whisper |-> cur.whisper, libre |-> to_libre(cur.whisper)]}
    /\ cur' = NoConversion
    /\ UNCHANGED <<todo, session, cache, translate>>

ConvertNext == ToWhisper \/ ToLibre

----------------------------------------------------------------------------
(* The language cache: get_supported_langs, routes_actions.py lines 75-119 *)

MaxCallers == 3

\* The coroutines that call get_supported_langs, each once
Callers == 1..MaxCallers

\* LANG_MAP = None
Unset == 0

\* The list that the fetch of caller p returns
Languages(p) == p

CacheInit ==
    /\ LANG_MAP = Unset
    /\ locked = FALSE
    /\ waiters = <<>>
    /\ gpc = [p \in Callers |-> "idle"]
    /\ fetched = {}

\* asyncio.Lock.acquire takes the lock at once when it is free and no one
\* is queued for it
LockFree == ~locked /\ waiters = <<>>

\* A second test that is always true.
IsNoneAlways(map) == TRUE

\* if LANG_MAP is None
IsNone(map) == map = Unset

\* Caller p inside the lock, lines 117-118: it starts fetch_languages when
\* the cache is still unset, and leaves the lock and returns otherwise. A
\* release leaves the lock free and wakes the oldest waiter, if any.
InsideLock(p) ==
    IF IsNone(LANG_MAP)
      THEN /\ gpc' = [gpc EXCEPT ![p] = "fetching"]
           /\ locked' = TRUE
      ELSE /\ gpc' = [gpc EXCEPT ![p] = "returned"]
           /\ locked' = FALSE

\* Caller p enters get_supported_langs, line 113: it returns the cache when
\* it is set; otherwise it takes the lock and goes on inside it, or queues
\* up for the lock.
Call(p) ==
    /\ gpc[p] = "idle"
    /\ IF ~IsNone(LANG_MAP)
         THEN /\ gpc' = [gpc EXCEPT ![p] = "returned"]
              /\ UNCHANGED <<locked, waiters>>
         ELSE IF LockFree
           THEN /\ InsideLock(p)
                /\ UNCHANGED waiters
           ELSE /\ gpc' = [gpc EXCEPT ![p] = "waiting"]
                /\ waiters' = Append(waiters, p)
                /\ UNCHANGED locked
    /\ UNCHANGED <<LANG_MAP, fetched, session, translate, codes>>

\* The oldest waiter, woken by a release, takes the lock and goes on inside it.
Acquire(p) ==
    /\ gpc[p] = "waiting"
    /\ ~locked
    /\ waiters # <<>> /\ Head(waiters) = p
    /\ waiters' = Tail(waiters)
    /\ InsideLock(p)
    /\ UNCHANGED <<LANG_MAP, fetched, session, translate, codes>>

\* fetch_languages of caller p returns a list (ok) or raises: line 118 and
\* the exit of the async with block, which releases the lock either way.
FetchEnds(p, ok) ==
    /\ gpc[p] = "fetching"
    /\ locked' = FALSE
    /\ IF ok
         THEN /\ LANG_MAP' = Languages(p)
              /\ fetched' = fetched \cup {p}
              /\ gpc' = [gpc EXCEPT ![p] = "returned"]
         ELSE /\ gpc' = [gpc EXCEPT ![p] = "raised"]
              /\ UNCHANGED <<LANG_MAP, fetched>>
    /\ UNCHANGED <<waiters, session, translate, codes>>

LangsNext ==
    \/ \E p \in Callers : Call(p)
    \/ \E p \in Callers : Acquire(p)
    \/ \E p \in Callers : \E ok \in BOOLEAN : FetchEnds(p, ok)

----------------------------------------------------------------------------
(* The /translate session: backend/app/api/websocket_translate.py *)

MaxMessages == 3

\* A key that the message does not have
Absent == "absent"

\* The text frames that are tried: init and changeLang with each of their
\* two keys present or not, translate with a text and with an empty one, a
\* frame that is no JSON, a JSON value that is no object, and an object of
\* an unknown type.
ClientMessages ==
    [type : {"init"}, inputLang : {"fr", Absent}, targetLang : {"de", Absent}, text : {Absent}]
    \cup [type : {"changeLang"}, inputLang : {"de", Absent}, targetLang : {"fr", Absent}, text : {Absent}]
    \cup [type : {"translate"}, inputLang : {Absent}, targetLang : {Absent}, text : {"hello", ""}]
    \cup [type : {"invalid", "nonobject", "unknown"}, inputLang : {Absent}, targetLang : {Absent}, text : {Absent}]

\* data.get(key, default)
Get(value, default) == IF value = Absent THEN default ELSE value

\* The pair before any init message, lines 52-53
DefaultPair == [source |-> "en", target |-> "en"]

\* A changeLang that falls back to the defaults.
ChangeLangFromDefaults(pair, m) ==
    [source |-> Get(m.inputLang, "en"), target |-> Get(m.targetLang, "en")]

\* The pair after an init message, lines 93-97
InitPair(m) ==
    [source |-> Get(m.inputLang, "en"), target |-> Get(m.targetLang, "en")]

\* The pair after a changeLang message, lines 100-105
ChangeLang(pair, m) ==
    [source |-> Get(m.inputLang, pair.source), target |-> Get(m.targetLang, pair.target)]

\* The outcome of a safe_send call, lines 61-69: a write to a peer that is
\* gone raises and the exception is swallowed
TrSendOutcome == IF trPeerUp THEN "sent" ELSE "failed"

\* safe_send({"translated_text": ..., "lang_info": {...}}) in answer to the
\* nth frame
TranslatedReply(n) ==
    [kind |-> "translated_text", answers |-> n, source |-> input_pair.source,
     target |-> input_pair.target, out |-> TrSendOutcome]

\* safe_send({"error": str(e)}) while the nth frame is handled
ErrorReply(n) ==
    [kind |-> "error", answers |-> n, source |-> Absent, target |-> Absent,
     out |-> TrSendOutcome]

TranslateInit ==
    /\ tpc = "recv"
    /\ input_pair = DefaultPair
    /\ inbox = <<>>
    /\ replies = <<>>
    /\ trPeerUp = TRUE

\* One pass of the loop for the text frame m, lines 74-144, up to the next
\* suspension: the next receive_text, the translation request, or the end of
\* the handler when data.get fails on a JSON value that is no object.
TrReceive(m) ==
    /\ tpc = "recv"
    /\ trPeerUp
    /\ Len(inbox) < MaxMessages
    /\ inbox' = Append(inbox, m)
    /\ CASE m.type = "init" ->
              /\ input_pair' = InitPair(m)
              /\ UNCHANGED <<tpc, replies>>
         [] m.type = "changeLang" ->
              /\ input_pair' = ChangeLang(input_pair, m)
              /\ UNCHANGED <<tpc, replies>>
         [] m.type = "translate" ->
              /\ tpc' = (IF m.text = "" THEN "recv" ELSE "post")
              /\ UNCHANGED <<input_pair, replies>>
         [] m.type = "nonobject" ->
              /\ tpc' = "ended"
              /\ replies' = Append(replies, ErrorReply(Len(inbox) + 1))
              /\ UNCHANGED input_pair
         [] OTHER -> UNCHANGED <<tpc, input_pair, replies>>
    /\ UNCHANGED <<trPeerUp, session, cache, codes>>

\* The translation request returns (ok) or raises, lines 114-138: the reply
\* or the error is passed to safe_send and the loop goes on.
TrPostEnds(ok) ==
    /\ tpc = "post"
    /\ replies' = Append(replies, IF ok THEN TranslatedReply(Len(inbox))
                                        ELSE ErrorReply(Len(inbox)))
    /\ tpc' = "recv"
    /\ UNCHANGED <<input_pair, inbox, trPeerUp, session, cache, codes>>

\* The peer goes away.
TrClientDrop ==
    /\ trPeerUp
    /\ tpc # "ended"
    /\ trPeerUp' = FALSE
    /\ UNCHANGED <<tpc, input_pair, inbox, replies, session, cache, codes>>

\* receive_text raises WebSocketDisconnect: lines 78-80 and the finally block
\* of lines 146-159
TrDisconnect ==
    /\ tpc = "recv"
    /\ ~trPeerUp
    /\ tpc' = "ended"
    /\ UNCHANGED <<input_pair, inbox, replies, trPeerUp, session, cache, codes>>

TranslateNext ==
    \/ \E m \in ClientMessages : TrReceive(m)
    \/ \E ok \in BOOLEAN : TrPostEnds(ok)
    \/ TrClientDrop
    \/ TrDisconnect

----------------------------------------------------------------------------
(* Initial state: the locals of websocket_transcribe after sender() has been
   started and before the first receive_bytes *)

\* Lines 212-224: empty buffers, empty queue, no task, the sender waiting
Locals ==
    /\ exit = "none"
    /\ audio_buffer = 0
    /\ sliding_buffer = 0
    /\ received = 0
    /\ nfrag = 0
    /\ tasks = <<>>
    /\ active_tasks = <<>>
    /\ gathered = {}
    /\ send_queue = <<>>
    /\ spc = "get"
    /\ enq = <<>>
    /\ wire = <<>>
    /\ clientUp = TRUE
    /\ appState = "CONNECTED"
    /\ closes = 0
    /\ engine = {}

\* ws.query_params.get("lang", "en")
DefaultLang == "en"

\* A session opened without a lang parameter, past its setup; the other
\* endpoints idle
Started ==
    /\ hpc = "recv"
    /\ input_lang = DefaultLang
    /\ isoLang = convert_libretranslate_whisper(DefaultLang)
    /\ Locals
    /\ CacheInit
    /\ TranslateInit

Init == Started /\ CodesInit(<<>>)

\* The same with a list of codes to convert
ConvertInit == Started /\ \E s \in CodeLists : CodesInit(s)

\* A connection with any of the lang parameters, accepted and not yet set up
AdapterInit ==
    /\ hpc = "accept"
    /\ input_lang \in InputLangs
    /\ isoLang = NoLanguage
    /\ Locals
    /\ CacheInit
    /\ TranslateInit
    /\ CodesInit(<<>>)

\* Lines 208-210: the hint is None for "auto" and the converted code
\* otherwise; an exception of the conversion ends the handler before its try
\* block.
Setup ==
    /\ hpc = "accept"
    /\ LET iso == IF input_lang = "auto"
                    THEN NoLanguage
                    ELSE convert_libretranslate_whisper(input_lang)
       IN IF iso = LanguageTagError
            THEN /\ hpc' = "setup_raised"
                 /\ UNCHANGED isoLang
            ELSE /\ hpc' = "recv"
                 /\ isoLang' = iso
    /\ UNCHANGED <<exit, audio_buffer, sliding_buffer, received, nfrag, tasks,
                   active_tasks, gathered, send_queue, spc, enq, wire, clientUp,
                   appState, closes, input_lang, engine, outside>>

----------------------------------------------------------------------------
(* The receive loop *)

\* The loop of the earlier revision (result = await transcribe_chunk(...)):
\* it waits for the inference it has just started.
AfterDispatchAwaited(spawned) == IF spawned > 0 THEN "await_task" ELSE "recv"

\* Where the handler waits after it has created the tasks of one fragment:
\* create_task does not suspend, so the loop is back at receive_bytes.
AfterDispatch(spawned) == "recv"

\* await send_queue.put({"event": "done"}): the queue is unbounded, the put
\* never suspends.
PutDone ==
    /\ send_queue' = QueuePut(send_queue, DoneMsg)
    /\ enq' = Append(enq, DoneMsg)

\* A finally block that puts the marker without waiting for the tasks.
EnterFinallyNoDrain(l) ==
    /\ hpc' = "await_sender"
    /\ gathered' = Range(l)
    /\ PutDone

\* The finally block up to its first suspension, entered with the task list l:
\* either asyncio.gather over the tasks still listed, or (no task listed) the
\* put of the terminal marker and the wait for the sender.
EnterFinally(l) ==
    IF l # <<>>
      THEN /\ hpc' = "gather"
           /\ gathered' = Range(l)
           /\ UNCHANGED <<send_queue, enq>>
      ELSE /\ hpc' = "await_sender"
           /\ gathered' = {}
           /\ PutDone

\* A handler that still reads while it waits for the sender.
AtReceiveOrAwaitSender == hpc \in {"recv", "await_sender"}

\* The handler is suspended in await ws.receive_bytes(), line 228: the only
\* place where it takes inbound bytes
AtReceive == hpc = "recv"

\* One pass of the loop body for a fragment of n bytes: lines 228-250. A
\* buffer that np.frombuffer cannot reinterpret raises ValueError, which is
\* not caught by the except clause and runs the finally block.
Ingest(n) ==
    /\ AtReceive
    /\ clientUp
    /\ nfrag < MaxFragments
    /\ nfrag' = nfrag + 1
    /\ received' = received + n
    /\ LET ab == audio_buffer + n
           sb == sliding_buffer + n
           end == received + n
           short == ShortReady(ab)
           long == LongReady(sb)
           t1 == IF short THEN <<NewTask(ShortWindow(end), FALSE)>> ELSE <<>>
           t2 == IF long THEN <<NewTask(LongWindow(end, sb), TRUE)>> ELSE <<>>
           new == t1 \o t2
       IN IF ~Reinterprets(ab)
            THEN /\ audio_buffer' = ab
                 /\ sliding_buffer' = sb
                 /\ exit' = "ValueError"
                 /\ EnterFinally(active_tasks)
                 /\ UNCHANGED <<tasks, active_tasks>>
            ELSE /\ Len(tasks) + Len(new) <= MaxTasks
                 /\ audio_buffer' = (IF short THEN TruncateShort(ab) ELSE ab)
                 /\ sliding_buffer' = (IF long THEN TruncateLong(sb) ELSE sb)
                 /\ tasks' = tasks \o new
                 /\ active_tasks' =
                        active_tasks \o [i \in 1..Len(new) |-> Len(tasks) + i]
                 /\ hpc' = AfterDispatch(Len(new))
                 /\ UNCHANGED <<exit, gathered, send_queue, enq>>
    /\ UNCHANGED <<spc, wire, clientUp, appState, closes, input_lang, isoLang, engine, outside>>

\* The peer goes away (the environment's step).
ClientDrop ==
    /\ clientUp
    /\ clientUp' = FALSE
    /\ UNCHANGED <<hpc, exit, audio_buffer, sliding_buffer, received, nfrag,
                   tasks, active_tasks, gathered, send_queue, spc, enq, wire,
                   appState, closes, input_lang, isoLang, engine, outside>>

\* receive_bytes raises WebSocketDisconnect: lines 252-254.
Disconnect ==
    /\ AtReceive
    /\ ~clientUp
    /\ exit' = "WebSocketDisconnect"
    /\ EnterFinally(active_tasks)
    /\ UNCHANGED <<audio_buffer, sliding_buffer, received, nfrag, tasks,
                   active_tasks, spc, wire, clientUp, appState, closes,
                   input_lang, isoLang, engine, outside>>

----------------------------------------------------------------------------
(* The inference tasks: process_chunk and transcribe_chunk *)

\* What the first model.transcribe call can do: return text, return no text,
\* raise a ValueError that names the language, raise another ValueError, or
\* raise any other exception.
FirstOutcomes == {"text", "empty", "language_error", "ValueError", "Exception"}

\* What the retry with language=None can do; an exception raised inside the
\* except ValueError handler is caught by no clause of transcribe_chunk.
RetryOutcomes == {"text", "empty", "raised"}

\* transcribe_chunk after its first engine call, lines 160-177: the state the
\* task is in next
AfterFirstCall(o) ==
    CASE o = "language_error" -> "call2"
      [] o = "ValueError" -> "raised"
      [] o = "Exception" -> "error"
      [] OTHER -> o

\* A retry that is made again when it fails.
AfterRetryAgain(o) == IF o = "raised" THEN "call2" ELSE o

\* transcribe_chunk after the retry, line 169
AfterRetry(o) == o

TaskFinal == {"text", "empty", "error", "raised"}

\* A test that lets every returned transcription through.
HasTextOrNone(st) == st \in {"text", "empty"}

\* if text: (an error result carries text "")
HasText(st) == st = "text"

\* Every result sent with the default is_retranscribe=False.
ResultMsgUntagged(t) == PartialMsg(t, FALSE)

\* The message process_chunk puts for task t: lines 196-200
ResultMsg(t) == PartialMsg(t, tasks[t].is_retranscribe)

\* A task that writes its result to the socket itself.
PutResultDirect(t, st) ==
    IF HasText(st)
      THEN /\ wire' = Append(wire, [msg |-> ResultMsg(t), out |-> "sent"])
           /\ UNCHANGED <<send_queue, enq>>
      ELSE UNCHANGED <<send_queue, enq, wire>>

\* await send_queue.put(...) by task t when its result has text; the task
\* hands the message to the queue and does not touch the socket
PutResult(t, st) ==
    /\ IF HasText(st)
         THEN /\ send_queue' = QueuePut(send_queue, ResultMsg(t))
              /\ enq' = Append(enq, ResultMsg(t))
         ELSE UNCHANGED <<send_queue, enq>>
    /\ UNCHANGED wire

\* What the first call can do with the hint it is given: the engine
\* produces no segments for a language code it does not accept.
FirstPossible(lang) ==
    IF EngineAccepts(lang) THEN FirstOutcomes ELSE FirstOutcomes \ {"text", "empty"}

\* The nth model.transcribe call of task t, with its language argument and
\* what came of it
EngineCall(t, n, lang, o) == [task |-> t, n |-> n, language |-> lang, outcome |-> o]

\* Task t's first engine call, made with the hint, returns or raises, and
\* the task runs on to its next suspension or to its end.
FirstCall(t, o) ==
    /\ tasks[t].st = "call1"
    /\ o \in FirstPossible(isoLang)
    /\ tasks' = [tasks EXCEPT ![t].st = AfterFirstCall(o)]
    /\ PutResult(t, AfterFirstCall(o))
    /\ UNCHANGED <<hpc, exit, audio_buffer, sliding_buffer, received, nfrag,
                   active_tasks, gathered, spc, clientUp, appState, closes,
                   input_lang, isoLang, outside>>

\* Task t's retry call, made with language=None, returns or raises.
RetryCall(t, o) ==
    /\ tasks[t].st = "call2"
    /\ tasks' = [tasks EXCEPT ![t].st = AfterRetry(o)]
    /\ PutResult(t, AfterRetry(o))
    /\ UNCHANGED <<hpc, exit, audio_buffer, sliding_buffer, received, nfrag,
                   active_tasks, gathered, spc, clientUp, appState, closes,
                   input_lang, isoLang, outside>>

\* The two steps in the session specification, which keeps no record of the
\* engine calls
TranscribeFirst(t, o) == FirstCall(t, o) /\ UNCHANGED engine

TranscribeRetry(t, o) == RetryCall(t, o) /\ UNCHANGED engine

\* The same two steps with the call recorded
EngineFirst(t, o) ==
    /\ FirstCall(t, o)
    /\ engine' = engine \cup {EngineCall(t, 1, isoLang, o)}

EngineRetry(t, o) ==
    /\ RetryCall(t, o)
    /\ engine' = engine \cup {EngineCall(t, 2, NoLanguage, o)}

\* A removal that drops the oldest entry of the list.
RemoveOldest(l, t) == Tail(l)

\* active_tasks.remove(t)
Remove(l, t) == SelectSeq(l, LAMBDA x : x # t)

\* The done callback of a finished task: lines 238 and 247. The event loop
\* runs it after the task has ended, as a step of its own.
DoneCallback(t) ==
    /\ tasks[t].st \in TaskFinal
    /\ t \in Range(active_tasks)
    /\ active_tasks' = Remove(active_tasks, t)
    /\ UNCHANGED <<hpc, exit, audio_buffer, sliding_buffer, received, nfrag,
                   tasks, gathered, send_queue, spc, enq, wire, clientUp,
                   appState, closes, input_lang, isoLang, engine, outside>>

----------------------------------------------------------------------------
(* The sender task and safe_send *)

\* A sender that leaves its loop once the peer is gone.
SenderStopsWithPeer(msg) == msg = None \/ ~clientUp

\* if msg is None: break
SenderStops(msg) == msg = None

\* safe_send, lines 180-185: the outcome of one call. The message is written
\* only when the application side is CONNECTED; a write to a peer that is gone
\* raises one of the three exceptions the except clause swallows.
SendOutcome ==
    IF appState # "CONNECTED" THEN "skipped"
    ELSE IF clientUp THEN "sent" ELSE "raised"

\* One turn of the sender loop, lines 218-222: dequeue, test for the sentinel,
\* safe_send. A write that fails leaves the application state as it was or,
\* where the transport marks itself closed on a failed write, DISCONNECTED.
Sender(after) ==
    /\ spc = "get"
    /\ send_queue # <<>>
    /\ send_queue' = Tail(send_queue)
    /\ IF SenderStops(QueueGet(send_queue))
         THEN /\ spc' = "finished"
              /\ UNCHANGED <<wire, appState>>
         ELSE /\ spc' = "get"
              /\ wire' = Append(wire, [msg |-> QueueGet(send_queue), out |-> SendOutcome])
              /\ appState' = (IF SendOutcome = "raised" THEN after ELSE appState)
    /\ UNCHANGED <<hpc, exit, audio_buffer, sliding_buffer, received, nfrag,
                   tasks, active_tasks, gathered, enq, clientUp, closes,
                   input_lang, isoLang, engine, outside>>

----------------------------------------------------------------------------
(* The finally block after its first suspension: lines 255-263 *)

\* asyncio.gather raises the exception of the first of its tasks that fails
GatherRaises == \E t \in gathered : tasks[t].st = "raised" /\ t \notin Range(active_tasks)

\* A drain that does not wait for the tasks.
GatherReturnsAtOnce == TRUE

\* asyncio.gather returns when every one of its tasks has ended
GatherReturns ==
    \A t \in gathered : tasks[t].st \in TaskFinal \ {"raised"} /\ t \notin Range(active_tasks)

Finally ==
    /\ hpc \in {"gather", "await_sender"}
    /\ IF hpc = "gather"
         THEN /\ (GatherRaises \/ GatherReturns)
              /\ IF GatherRaises
                   THEN /\ hpc' = "aborted"
                        /\ UNCHANGED <<send_queue, enq>>
                   ELSE /\ hpc' = "await_sender"
                        /\ PutDone
              /\ UNCHANGED <<appState, closes>>
         ELSE /\ spc = "finished"
              /\ hpc' = "closed"
              /\ IF appState = "CONNECTED"
                   THEN appState' = "DISCONNECTED" /\ closes' = closes + 1
                   ELSE UNCHANGED <<appState, closes>>
              /\ UNCHANGED <<send_queue, enq>>
    /\ UNCHANGED <<exit, audio_buffer, sliding_buffer, received, nfrag, tasks,
                   active_tasks, gathered, spc, wire, clientUp,
                   input_lang, isoLang, engine, outside>>

----------------------------------------------------------------------------

TaskIds == 1..Len(tasks)

Next ==
    \/ \E n \in FragmentSizes : Ingest(n)
    \/ ClientDrop
    \/ Disconnect
    \/ \E t \in TaskIds : \E o \in FirstOutcomes : TranscribeFirst(t, o)
    \/ \E t \in TaskIds : \E o \in RetryOutcomes : TranscribeRetry(t, o)
    \/ \E t \in TaskIds : DoneCallback(t)
    \/ \E after \in {"CONNECTED", "DISCONNECTED"} : Sender(after)
    \/ Finally

Spec == Init /\ [][Next]_vars

\* The session from its accept to the engine calls of its tasks, with the
\* peer present and the calls recorded
AdapterNext ==
    \/ Setup
    \/ \E n \in FragmentSizes : Ingest(n)
    \/ \E t \in TaskIds : \E o \in FirstOutcomes : EngineFirst(t, o)
    \/ \E t \in TaskIds : \E o \in RetryOutcomes : EngineRetry(t, o)

AdapterSpec == AdapterInit /\ [][AdapterNext]_vars

\* The callers of get_supported_langs, with no /transcribe traffic
LangsSpec == Init /\ [][LangsNext]_vars

\* One /translate session, with no other traffic
TranslateSpec == Init /\ [][TranslateNext]_vars

\* Conversions to the Whisper vocabulary and back, with no other traffic
ConvertSpec == ConvertInit /\ [][ConvertNext]_vars

----------------------------------------------------------------------------
(* Vocabulary of the properties *)

IsResult(m) == m.event = "partial_text"

WireMsgs == [i \in 1..Len(wire) |-> wire[i].msg]

\* The sender has dequeued the terminal marker and passed it to safe_send.
DoneHandled == \E i \in 1..Len(wire) : wire[i].msg = DoneMsg

\* A step of the program itself (not of the peer).
ProgramStep ==
    \/ Disconnect
    \/ \E t \in TaskIds : \E o \in FirstOutcomes : TranscribeFirst(t, o)
    \/ \E t \in TaskIds : \E o \in RetryOutcomes : TranscribeRetry(t, o)
    \/ \E t \in TaskIds : DoneCallback(t)
    \/ \E after \in {"CONNECTED", "DISCONNECTED"} : Sender(after)
    \/ Finally

\* Nothing of the session can run any more: every coroutine is either ended
\* or waiting for something that no one will provide.
AtRest == ~ENABLED ProgramStep

InFlight(t) == tasks[t].st \in {"call1", "call2"}

\* The window of task t is a long (retranscription) window: the whole sliding
\* buffer, which held at least RETRANSCRIBE_SIZE bytes.
IsLongWindow(t) == tasks[t].last - tasks[t].first >= RETRANSCRIBE_SIZE

ResultsPut == { i \in 1..Len(enq) : IsResult(enq[i]) }

ResultsPassed == { j \in 1..Len(wire) : IsResult(wire[j].msg) }

ResultsWritten == { j \in ResultsPassed : wire[j].out = "sent" }

----------------------------------------------------------------------------
(* Properties *)

\* C1: however the receive loop ends, ws.send_text is called with the done
\* message, and no message is passed to the transport after it. Stated on
\* the states in which the session has come to rest: the last message passed
\* to safe_send is then done, and it was written (not skipped).
C1_DoneIsLastMessage ==
    /\ \A i \in 1..Len(wire) : wire[i].msg = DoneMsg => i = Len(wire)
    /\ (exit # "none" /\ AtRest) =>
          /\ wire # <<>>
          /\ wire[Len(wire)].msg = DoneMsg
          /\ wire[Len(wire)].out # "skipped"

\* C2: a session that has left its receive loop and is past the wait for its
\* tasks has put exactly one done marker on the send queue.
C2_ExactlyOneDone ==
    (exit # "none" /\ hpc # "gather") =>
        Cardinality({ i \in 1..Len(enq) : enq[i] = DoneMsg }) = 1

\* C3: once the sender has dequeued the done marker, the sender has ended.
C3_SenderStopsOnDone ==
    (DoneMsg \in Range(enq) /\ DoneMsg \notin Range(send_queue)) => spc = "finished"

\* C4: after a disconnect, with every inference call returned and no task
\* failed, the session does not come to rest anywhere but Closed.
C4_DisconnectReachesClosed ==
    ( /\ exit = "WebSocketDisconnect"
      /\ \A t \in TaskIds : tasks[t].st # "raised"
      /\ AtRest ) => hpc = "closed"

\* C5 as claimed: when done is handled, as many results have been written to
\* the transport as were put on the queue.
C5_AllResultsWritten ==
    DoneHandled => Cardinality(ResultsWritten) = Cardinality(ResultsPut)

\* C5 amended: when done is handled, every result put on the queue has been
\* dequeued and passed to safe_send before done, as many as were put; and a
\* result that was not written found the peer gone.
C5_AllResultsPassedBeforeDone ==
    DoneHandled =>
        /\ Cardinality(ResultsPassed) = Cardinality(ResultsPut)
        /\ \A i \in ResultsPut : \E j \in ResultsPassed :
              /\ wire[j].msg = enq[i]
              /\ \A k \in 1..Len(wire) : wire[k].msg = DoneMsg => j < k
        /\ \A j \in ResultsPassed : wire[j].out # "sent" => ~clientUp

\* C5 witness: done is handled after a disconnect, and a task that was still
\* in flight when the loop ended had its result passed to safe_send.
C5_Witness ==
    /\ exit = "WebSocketDisconnect"
    /\ DoneHandled
    /\ \E j \in ResultsPassed : wire[j].msg.task \in gathered

\* C6: the messages the sender passes to the transport are, in order, the
\* messages put on the queue: the k-th passed is the k-th put.
C6_FifoDelivery ==
    /\ Len(wire) <= Len(enq)
    /\ WireMsgs = SubSeq(enq, 1, Len(wire))

\* C6 witness: two results were written in the opposite order of the
\* dispatch of their windows.
C6_Witness ==
    \E i, j \in ResultsWritten : i < j /\ wire[i].msg.task > wire[j].msg.task

\* C7: every result passed to the transport carries the is-long-window flag
\* of its task's window; and of a long-window and a short-window task of
\* which the long one completed first with text, the short one's result is
\* never passed without the long one's before it, and with the peer present
\* both are written.
C7_LongFirstBothTagged ==
    /\ \A j \in ResultsPassed :
          wire[j].msg.is_retranscribe = IsLongWindow(wire[j].msg.task)
    /\ \A l, s \in TaskIds :
          ( /\ IsLongWindow(l) /\ ~IsLongWindow(s)
            /\ \E a, b \in ResultsPut :
                  a < b /\ enq[a].task = l /\ enq[b].task = s )
          => \A j \in ResultsPassed : wire[j].msg.task = s =>
                /\ \E i \in ResultsPassed : i < j /\ wire[i].msg.task = l
                /\ clientUp => \A k \in 1..j : wire[k].out = "sent"

\* C7 witness: a long and a short window of the same fragment, the long
\* result written first and tagged true, the short one second and tagged false.
C7_Witness ==
    /\ Len(wire) >= 2
    /\ wire[1].out = "sent" /\ wire[2].out = "sent"
    /\ IsResult(wire[1].msg) /\ IsResult(wire[2].msg)
    /\ wire[1].msg.is_retranscribe /\ ~wire[2].msg.is_retranscribe
    /\ tasks[wire[1].msg.task].last = tasks[wire[2].msg.task].last
    /\ wire[1].msg.task > wire[2].msg.task

\* The fragment of n bytes stays within the bounds of the model.
WithinBounds(n) ==
    /\ nfrag < MaxFragments
    /\ \/ ~Reinterprets(audio_buffer + n)
       \/ Len(tasks) + (IF ShortReady(audio_buffer + n) THEN 1 ELSE 0)
                     + (IF LongReady(sliding_buffer + n) THEN 1 ELSE 0) <= MaxTasks

\* C8: as long as the receive loop has not ended, the handler is suspended
\* at receive_bytes and nowhere else, and, whatever the tasks in flight, it
\* can take the next fragment.
C8_LoopWaitsOnlyOnReceive ==
    /\ exit = "none" => hpc = "recv"
    /\ \A n \in FragmentSizes :
          (exit = "none" /\ clientUp /\ WithinBounds(n)) => ENABLED Ingest(n)

\* C8 witness: the loop is at receive_bytes with two inference calls in
\* flight whose windows were dispatched by different fragments.
C8_Witness ==
    /\ hpc = "recv"
    /\ \E t1, t2 \in TaskIds :
          InFlight(t1) /\ InFlight(t2) /\ tasks[t1].last < tasks[t2].last

\* C9: after every fragment that was processed to the end of the loop body,
\* the short buffer holds fewer than 2 * CHUNK_SIZE samples.
C9_ShortBufferBounded ==
    exit # "ValueError" => SampleCount(audio_buffer) < 2 * CHUNK_SIZE

\* C9 witness: more than two short windows of audio have been received in
\* two fragments and the short buffer has been cut back.
C9_Witness ==
    /\ exit = "none"
    /\ nfrag >= 2
    /\ received > BYTES_PER_SAMPLE * 2 * CHUNK_SIZE
    /\ audio_buffer = OVERLAP_SIZE

\* C10: a step that emits a window leaves exactly OVERLAP_SIZE samples in
\* the buffer the window was taken from.
C10_OverlapAfterEmission ==
    [][ \A t \in (Len(tasks) + 1)..Len(tasks') :
            IF tasks'[t].is_retranscribe
              THEN SampleCount(sliding_buffer') = OVERLAP_SIZE
              ELSE SampleCount(audio_buffer') = OVERLAP_SIZE ]_vars

\* The short windows dispatched by the step, as byte ranges.
NewShortWindows ==
    { <<tasks'[t].first, tasks'[t].last>> :
        t \in { u \in (Len(tasks) + 1)..Len(tasks') : ~tasks'[u].is_retranscribe } }

\* C11: a single fragment that brings the short buffer to at least
\* 2 * CHUNK_SIZE samples makes the step dispatch two distinct short windows.
C11_BurstEmitsTwoWindows ==
    [][ ( /\ received' > received
          /\ exit' = "none"
          /\ SampleCount(audio_buffer + (received' - received)) >= 2 * CHUNK_SIZE )
        => Cardinality(NewShortWindows) >= 2 ]_vars

\* The engine calls of task t that have returned or raised
CallsOf(t) == { c \in engine : c.task = t }

\* C12: transcribe_chunk calls the engine at most twice for a window: first
\* with the hint, and once more, with no hint, only after the first call was
\* rejected for its language; whatever the second call returns or raises,
\* the task has ended and no third call is made.
C12_AtMostTwoEngineCalls ==
    \A t \in TaskIds :
        LET calls == CallsOf(t)
        IN /\ Cardinality(calls) <= 2
           /\ calls = {} <=> tasks[t].st = "call1"
           /\ \A c \in calls :
                 /\ c.n \in {1, 2}
                 /\ c.n = 1 => c.language = isoLang
                 /\ c.n = 2 =>
                       /\ c.language = NoLanguage
                       /\ EngineCall(t, 1, isoLang, "language_error") \in calls
                       /\ tasks[t].st \in TaskFinal
           /\ tasks[t].st = "call2" =>
                 calls = {EngineCall(t, 1, isoLang, "language_error")}

\* C12 witness: a window whose first call was rejected for its language and
\* whose retry raised; the task has ended after the two calls.
C12_Witness ==
    \E t \in TaskIds :
        /\ Cardinality(CallsOf(t)) = 2
        /\ EngineCall(t, 2, NoLanguage, "raised") \in CallsOf(t)
        /\ tasks[t].st = "raised"

\* The outcomes of an engine call that are a failure of the engine
EngineFailures == {"language_error", "ValueError", "Exception", "raised"}

\* C13: an engine call that fails otherwise than by rejecting the hint of
\* the first call - a ValueError that does not name the language, any other
\* exception, a failure of the retry - ends transcribe_chunk with an error
\* result: the task holds the result and no exception has left the function.
C13_FailuresBecomeErrorResults ==
    \A c \in engine :
        ( /\ c.outcome \in EngineFailures
          /\ ~(c.n = 1 /\ c.outcome = "language_error") )
        => tasks[c.task].st = "error"

\* The error messages on the send queue so far that belong to task t
ErrorsPut(t) == { i \in 1..Len(enq) : enq[i].event = "error" /\ enq[i].task = t }

\* C14: when the engine fails on a window with an internal error, the task
\* of the window has put an error message on the send queue by the time it
\* ends.
C14_EngineErrorIsReported ==
    \A t \in TaskIds : tasks[t].st = "error" => ErrorsPut(t) # {}

\* C15: no failure inside a task is raised into the session handler: the
\* handler never ends by an exception that asyncio.gather took from one of
\* the tasks it waits for.
C15_NoTaskFailureInHandler ==
    hpc = "aborted" => \A t \in gathered : tasks[t].st # "raised"

\* C16: a fragment that makes the reinterpretation of the buffer as int16
\* raise leaves the handler in its receive loop, with an error event put on
\* the send queue by the step.
C16_BadFragmentReported ==
    [][ ( /\ received' > received
          /\ ~Reinterprets(audio_buffer + (received' - received)) )
        => /\ hpc' = "recv"
           /\ \E i \in (Len(enq) + 1)..Len(enq') : enq'[i].event = "error" ]_vars

\* The lang parameter can be projected into the engine's vocabulary
Projects(lang) ==
    /\ lang # "auto"
    /\ convert_libretranslate_whisper(lang) \in WhisperLanguages

\* C17: when the lang parameter is "auto" or cannot be projected into the
\* engine's vocabulary, the setup of the connection does not raise and every
\* engine call of the session is made with language=None.
C17_NoHintWhenNotProjected ==
    ~Projects(input_lang) =>
        /\ hpc # "setup_raised"
        /\ \A c \in engine : c.language = NoLanguage

\* C18: a window whose transcription has no text puts nothing on the send
\* queue: every result on the queue belongs to a task that ended with text,
\* and while no window of the session has produced text the queue has been
\* given nothing but the terminal marker.
C18_EmptyTextPutsNothing ==
    /\ \A i \in ResultsPut : tasks[enq[i].task].st = "text"
    /\ (\A t \in TaskIds : tasks[t].st # "text") =>
           \A i \in 1..Len(enq) : enq[i] = DoneMsg

\* C18 witness: two windows of silence were transcribed, the session has
\* ended and the marker is all that was put on the queue.
C18_Witness ==
    /\ Len(tasks) = 2
    /\ \A t \in TaskIds : tasks[t].st = "empty"
    /\ enq = <<DoneMsg>>

\* C19: the terminal marker is put on the send queue only after every task
\* that was still listed when the receive loop ended has completed; no task
\* is cancelled, and every result of the session precedes the marker in the
\* queue.
C19_DoneAfterTasksInFlight ==
    \A i \in 1..Len(enq) :
        enq[i] = DoneMsg =>
            /\ \A t \in gathered : tasks[t].st \in TaskFinal
            /\ \A j \in ResultsPut : j < i

\* C19 witness: the loop ended with two tasks listed, both have put their
\* text, and the marker follows their two results in the queue.
C19_Witness ==
    /\ Cardinality(gathered) = 2
    /\ Len(enq) = 3
    /\ IsResult(enq[1]) /\ IsResult(enq[2])
    /\ enq[3] = DoneMsg
    /\ wire = <<>>

\* The step dispatches a long (retranscription) window
LongDispatched ==
    \E t \in (Len(tasks) + 1)..Len(tasks') : tasks'[t].is_retranscribe

\* C20: a fragment makes the loop dispatch a long window exactly when the
\* long buffer then holds at least RETRANSCRIBE_SIZE samples, and the window
\* is the whole long buffer.
C20_LongWindowAtTenSeconds ==
    [][ ( /\ received' > received
          /\ exit' = "none" )
        => /\ LongDispatched <=>
                SampleCount(sliding_buffer + (received' - received)) >= RETRANSCRIBE_SIZE
           /\ \A t \in (Len(tasks) + 1)..Len(tasks') :
                 tasks'[t].is_retranscribe =>
                     /\ tasks'[t].last = received'
                     /\ tasks'[t].last - tasks'[t].first
                            = sliding_buffer + (received' - received) ]_vars

\* The step dispatches a short window
ShortDispatched ==
    \E t \in (Len(tasks) + 1)..Len(tasks') : ~tasks'[t].is_retranscribe

\* C21: a fragment makes the loop dispatch a short window exactly when the
\* short buffer then holds at least CHUNK_SIZE samples, and the window is
\* the last CHUNK_SIZE samples received, whatever else the buffer holds.
C21_ShortWindowIsTrailingSlice ==
    [][ ( /\ received' > received
          /\ exit' = "none" )
        => /\ ShortDispatched <=>
                SampleCount(audio_buffer + (received' - received)) >= CHUNK_SIZE
           /\ \A t \in (Len(tasks) + 1)..Len(tasks') :
                 ~tasks'[t].is_retranscribe =>
                     /\ tasks'[t].last = received'
                     /\ SampleCount(tasks'[t].last - tasks'[t].first) = CHUNK_SIZE ]_vars

\* C21 witness: a short window was dispatched from a buffer that held more
\* than CHUNK_SIZE samples; the window leaves the oldest of them out.
C21_Witness ==
    \E t \in TaskIds :
        /\ ~tasks[t].is_retranscribe
        /\ nfrag = 1
        /\ tasks[t].last = received
        /\ tasks[t].first > 0

\* C22: in every state the active_tasks list holds exactly the tasks that
\* have been created and have not yet completed.
C22_ActiveTasksExact ==
    Range(active_tasks) = { t \in TaskIds : InFlight(t) }

\* C22, amended: the list holds every task that is still running and only
\* tasks that were created, each of them once; a task that is not listed has
\* ended. (A task that has ended stays listed until the event loop runs its
\* done callback.)
C22_ActiveTasksCoverInFlight ==
    /\ \A i, j \in 1..Len(active_tasks) : active_tasks[i] = active_tasks[j] => i = j
    /\ Range(active_tasks) \subseteq TaskIds
    /\ \A t \in TaskIds : InFlight(t) => t \in Range(active_tasks)

\* C22 witness: of two tasks, one has ended and has been removed by its
\* callback, the other has ended with an exception and is still listed.
C22_Witness ==
    \E t, u \in TaskIds :
        /\ tasks[t].st \in TaskFinal /\ t \notin Range(active_tasks)
        /\ tasks[u].st = "raised" /\ active_tasks = <<u>>

\* C23: a write that fails, or that is skipped because the socket is no
\* longer connected, does not stop the sender: until it has handled the
\* terminal marker the sender is in its loop, and what was put on the queue
\* is what it has passed to safe_send followed by what is still queued.
C23_SenderSurvivesTransportFailure ==
    ~DoneHandled =>
        /\ spc = "get"
        /\ enq = WireMsgs \o send_queue

\* C23 witness: a write raised, a later one was skipped, and the sender went
\* on to the terminal marker.
C23_Witness ==
    \E i, j, k \in 1..Len(wire) :
        /\ i < j /\ j < k
        /\ wire[i].out = "raised"
        /\ wire[j].out = "skipped"
        /\ wire[k].msg = DoneMsg

\* C24: the handler calls ws.close() at most once, and only from a socket
\* whose application side is CONNECTED; a handler that has passed the close
\* step has left the socket DISCONNECTED.
C24_CloseAtMostOnce ==
    /\ closes <= 1
    /\ closes = 1 => hpc = "closed"
    /\ hpc = "closed" => appState = "DISCONNECTED"

\* C24: the case the statement is about, the handler past lines 261-263. No
\* state of the session satisfies it: the handler does not get past
\* await sender_task.
C24_CloseStepReached == hpc = "closed"

\* C25: once the receive loop has ended, no step of the session takes
\* inbound bytes, changes a buffer or creates a task.
C25_NoIngestAfterOpen ==
    [][ hpc # "recv" =>
          /\ UNCHANGED <<received, nfrag, audio_buffer, sliding_buffer>>
          /\ Len(tasks') = Len(tasks) ]_vars

\* C25 witness: the loop was ended by a fragment it could not reinterpret,
\* the peer is still there and could send more, and the session has gone on
\* to pass the terminal marker to the transport.
C25_Witness ==
    /\ exit = "ValueError"
    /\ clientUp
    /\ nfrag < MaxFragments
    /\ hpc = "await_sender"
    /\ DoneHandled

\* C26: every message that reaches the transport is written by the sender,
\* one per turn of its loop: a step that writes is a step of the sender that
\* takes the oldest message from the queue and writes that message alone,
\* and it is no step of a task or of the receive loop.
C26_SingleWriter ==
    [][ wire' # wire =>
          /\ spc = "get"
          /\ send_queue # <<>>
          /\ send_queue' = Tail(send_queue)
          /\ wire' = Append(wire, wire'[Len(wire')])
          /\ wire'[Len(wire')].msg = Head(send_queue)
          /\ UNCHANGED <<tasks, hpc, received, enq>> ]_vars

\* C26 witness: two tasks and the handler have each produced a message and
\* the three of them have been written to the peer.
C26_Witness ==
    /\ Len(wire) = 3
    /\ \A j \in 1..3 : wire[j].out = "sent"
    /\ wire[1].msg.task # wire[2].msg.task
    /\ wire[3].msg = DoneMsg

\* The callers whose fetch_languages call is in progress
Fetching == { p \in Callers : gpc[p] = "fetching" }

\* C27: at most one fetch_languages call is in progress at a time and at
\* most one ever returns a list; once LANG_MAP is set it holds that list and
\* nobody fetches; the lock is held only while a fetch is in progress, so a
\* fetch that raised has left LANG_MAP unset and the lock released.
C27_OneFetchAtATime ==
    /\ Cardinality(Fetching) <= 1
    /\ Cardinality(fetched) <= 1
    /\ locked <=> Fetching # {}
    /\ IF LANG_MAP = Unset
         THEN fetched = {}
         ELSE fetched = {LANG_MAP} /\ Fetching = {}

\* C27 witness: the first fetch raised, another caller then fetched with
\* success, and a third caller got the cached list.
C27_Witness ==
    \E p, q, r \in Callers :
        /\ p # q /\ q # r /\ p # r
        /\ gpc[p] = "raised"
        /\ gpc[q] = "returned" /\ fetched = {q}
        /\ gpc[r] = "returned"
        /\ ~locked

\* The frames among the first n that set the source language: every init,
\* and every changeLang that names one
SetsSource(n) ==
    { i \in 1..n : \/ inbox[i].type = "init"
                   \/ inbox[i].type = "changeLang" /\ inbox[i].inputLang # Absent }

SetsTarget(n) ==
    { i \in 1..n : \/ inbox[i].type = "init"
                   \/ inbox[i].type = "changeLang" /\ inbox[i].targetLang # Absent }

Latest(S) == CHOOSE i \in S : \A j \in S : j <= i

\* The source and target language in force after the first n frames
SourceAfter(n) ==
    IF SetsSource(n) = {} THEN "en" ELSE Get(inbox[Latest(SetsSource(n))].inputLang, "en")

TargetAfter(n) ==
    IF SetsTarget(n) = {} THEN "en" ELSE Get(inbox[Latest(SetsTarget(n))].targetLang, "en")

\* C28: every translated_text reply answers a translate frame and carries
\* the language pair in force when that frame was received; the replies
\* follow the order of the frames they answer, one for every translate frame
\* with a text; and a translation request that fails does not end the
\* session, which ends only when the peer has gone or a frame was no object.
C28_RepliesCarryCurrentPair ==
    /\ \A k \in 1..Len(replies) :
          replies[k].kind = "translated_text" =>
              /\ inbox[replies[k].answers].type = "translate"
              /\ replies[k].source = SourceAfter(replies[k].answers - 1)
              /\ replies[k].target = TargetAfter(replies[k].answers - 1)
    /\ \A k, l \in 1..Len(replies) :
          k < l => replies[k].answers < replies[l].answers
    /\ \A i \in 1..Len(inbox) :
          (inbox[i].type = "translate" /\ inbox[i].text # "") =>
              \/ \E k \in 1..Len(replies) : replies[k].answers = i
              \/ i = Len(inbox) /\ tpc = "post"
    /\ tpc = "ended" =>
          \/ ~trPeerUp
          \/ inbox[Len(inbox)].type = "nonobject"

\* C28 witness: after a changeLang that names the source only, a first
\* translation failed and a second one was answered with the changed pair.
C28_Witness ==
    /\ Len(replies) = 2
    /\ replies[1].kind = "error" /\ replies[1].answers = 2
    /\ replies[2].kind = "translated_text" /\ replies[2].answers = 3
    /\ replies[2].source = "de" /\ replies[2].target = "en"
    /\ tpc = "recv"

\* The handler has left the drain step behind: it has put the marker or has
\* ended by an exception
PastDrain == hpc \in {"await_sender", "aborted", "closed"}

\* C29: a session in which a task has failed comes to the same end whenever
\* the task failed. A session whose task has failed and has been unlisted
\* before the loop ended puts the marker (C29_EarlyFailure is reachable), so
\* the statement is that every session with a failed task does.
C29_OutcomeIndependentOfTiming ==
    (PastDrain /\ \E t \in TaskIds : tasks[t].st = "raised")
        => \E i \in 1..Len(enq) : enq[i] = DoneMsg

\* C29: the session whose only task failed and was unlisted while the loop
\* was still running; the marker has been put.
C29_EarlyFailure ==
    /\ PastDrain
    /\ Len(tasks) = 1 /\ tasks[1].st = "raised"
    /\ gathered = {}
    /\ enq = <<DoneMsg>>

\* The keys of the exception table
TableCodes == DOMAIN LIBRETRANSLATE_EXCEPTIONS

\* C30: every code of the exception table that is taken to the Whisper
\* vocabulary by to_whisper and back by to_libre comes back as itself.
C30_TableRoundTrips ==
    \A r \in converted : r.code \in TableCodes => r.libre = r.code

\* C30, amended: zh-Hans, pt-br and nb come back as themselves; zh-Hant,
\* which shares the Whisper code zh with zh-Hans, comes back as zh-Hans.
C30_TableRoundTripsButZhHant ==
    \A r \in converted :
        r.code \in TableCodes =>
            /\ r.whisper \in {"zh", "pt", "no"}
            /\ r.libre = (IF r.code = "zh-Hant" THEN "zh-Hans" ELSE r.code)

\* C30 witness: zh-Hant and zh-Hans have both been taken to Whisper's zh and
\* back.
C30_Witness ==
    /\ [code |-> "zh-Hant", whisper |-> "zh", libre |-> "zh-Hans"] \in converted
    /\ [code |-> "zh-Hans", whisper |-> "zh", libre |-> "zh-Hans"] \in converted

====
